---------------------------- MODULE Spec2Model ----------------------------
(***************************************************************************)
(* Wizard Slam relay servers.  The repository holds three programs that    *)
(* pair a host and a client under a 4-digit room code:                     *)
(*   "relay"  : src/unnamed/part_000, the WebSocket relay                  *)
(*   "server" : src/server.js, the combined HTTP + WebSocket server        *)
(*   "poll"   : src/unnamed/part_001, the HTTP polling relay               *)
(* A behaviour is a run of ONE of them: Init picks the program (variant),  *)
(* and only that program's handlers are enabled afterwards.  Each handler  *)
(* runs to completion (Node's single-threaded event loop), so each is one  *)
(* action.                                                                 *)
(***************************************************************************)
EXTENDS Integers, Sequences, FiniteSets, TLC

----------------------------------------------------------------------------
(* Bounds of the model *)

\* connections (ws objects) that may ever be accepted
NumConns == 2
\* how many of the 9000 codes Math.random() is allowed to hit
NumCodes == 2
\* clock advances in one run
MaxTicks == 2
\* /send payloads held in the histories of the live rooms
MaxSends == 2

----------------------------------------------------------------------------
(* Program constants *)

\* Math.floor(1000 + Math.random() * 9000)
CodeBase == 1000
CodeSpan == 9000
\* server.js: now - room.created > 60 * 60 * 1000
RoomMaxAgeMs == 3600000
\* part_001: now - room.lastPing > 600000
IdleMs == 600000

Variants == {"relay", "server", "poll"}
WsVariants == {"relay", "server"}

Conns == 1 .. NumConns
\* null / undefined connection slot
NoConn == 0
\* null / undefined roomCode
NoCode == <<>>
\* the payloads a peer relays (opaque to the servers)
Payloads == {"x"}
\* the payloads of /send
PollMsgs == {"a", "b"}
Roles == {"host", "client"}

Min(a, b) == IF a < b THEN a ELSE b

\* Number.prototype.toString / String(n) of a 4-digit number: its decimal digits
toString(n) ==
    << (n \div 1000) % 10, (n \div 100) % 10, (n \div 10) % 10, n % 10 >>

\* the number a 4-digit decimal string denotes
toNumber(s) == s[1] * 1000 + s[2] * 100 + s[3] * 10 + s[4]

\* Math.floor(1000 + Math.random() * 9000).toString(): the draws of the model
Draws == { toString(CodeBase + k) : k \in 0 .. (Min(NumCodes, CodeSpan) - 1) }

\* the codes a peer may name in JOIN_ROOM, /join, /send, /poll, /close
JoinCodes == Draws

VARIABLES
    variant,    \* which program runs
    status,     \* "running" | "spinning" (generateRoomCode never returns) | "crashed"
    rooms,      \* the rooms Map: code -> room record
    ws,         \* the ws objects: conn -> [state, roomCode, isHost]
    now,        \* Date.now()
    stale,      \* history: conn -> the room it last created or joined was deleted
    swept,      \* history: the codes whose room a cleanup timer has removed
    sent,       \* the send() calls of the last handler, in order
    reply,      \* the HTTP response of the last handler
    last        \* the last event handled

vars == << variant, status, rooms, ws, now, stale, swept, sent, reply, last >>

----------------------------------------------------------------------------
(* Messages, replies, events *)

\* one call  target.send(JSON.stringify({type, code, data, message}));
\* open records target.readyState === WebSocket.OPEN at the call
Msg(to, type, code, data, message) ==
    [ to |-> to, type |-> type, code |-> code, data |-> data,
      message |-> message, open |-> ws[to].state = "OPEN" ]

NoReply == [ status |-> 0, error |-> "", code |-> NoCode, msgs |-> <<>>, partner |-> FALSE ]

Event(op, conn, code, role, data) ==
    [ op |-> op, conn |-> conn, code |-> code, role |-> role, data |-> data ]

\* target.readyState === WebSocket.OPEN
IsOpen(c) == c # NoConn /\ ws[c].state = "OPEN"

\* a set of codes as a sequence, in increasing order
RECURSIVE Ascending(_)
Ascending(codes) ==
    IF codes = {} THEN << >>
    ELSE LET first == CHOOSE c \in codes : \A d \in codes : toNumber(c) <= toNumber(d)
         IN  << first >> \o Ascending(codes \ {first})

\* history: stale after a handler.  A connection is in the session of the room
\* it last created or joined until that room is deleted from the Map; a later
\* room under the same code is another session
staleNext ==
    [ c \in Conns |->
        IF ws'[c].roomCode = NoCode THEN FALSE
        ELSE IF /\ last'.conn = c
                /\ last'.op \in {"CREATE_ROOM", "JOIN_ROOM"}
                /\ sent' # << >>
                /\ sent'[1].type \in {"ROOM_CREATED", "JOINED"}
             THEN FALSE
             ELSE stale[c] \/ ws[c].roomCode \in (DOMAIN rooms \ DOMAIN rooms') ]

\* history: swept after a handler
sweptNext ==
    IF last'.op = "cleanup" THEN swept \cup (DOMAIN rooms \ DOMAIN rooms') ELSE swept

----------------------------------------------------------------------------
(* Code generator *)

\* mutant: the draw is returned without the rooms.has(code) retry
generateRoomCodeNoRetry(rms) == Draws

\* do { code = ... } while (rooms.has(code)); return code  -- the codes it can return
generateRoomCode(rms) == Draws \ DOMAIN rms

----------------------------------------------------------------------------
(* Transport events common to the WebSocket servers *)

\* wss.on('connection'): relay sets roomCode = null, isHost = false; in server.js
\* both fields start undefined
Connection(w) ==
    /\ variant \in WsVariants
    /\ status = "running"
    /\ ws[w].state = "NEW"
    /\ \A v \in Conns : v < w => ws[v].state # "NEW"
    /\ ws' = [ws EXCEPT ![w] = [state |-> "OPEN", roomCode |-> NoCode, isHost |-> FALSE]]
    /\ sent' = << >>
    /\ reply' = NoReply
    /\ last' = Event("connection", w, NoCode, "", "")
    /\ UNCHANGED << variant, status, rooms, now >>
    /\ stale' = staleNext
    /\ swept' = sweptNext

\* the socket stops being open (the peer closed it, the network failed);
\* ws will emit 'close' later
SocketDown(w) ==
    /\ variant \in WsVariants
    /\ status = "running"
    /\ ws[w].state = "OPEN"
    /\ ws' = [ws EXCEPT ![w].state = "CLOSING"]
    /\ sent' = << >>
    /\ reply' = NoReply
    /\ last' = Event("down", w, NoCode, "", "")
    /\ UNCHANGED << variant, status, rooms, now >>
    /\ stale' = staleNext
    /\ swept' = sweptNext

----------------------------------------------------------------------------
(* src/unnamed/part_000: the WebSocket relay *)

\* handleCreateRoom(ws)
handleCreateRoom(w) ==
    /\ variant = "relay"
    /\ status = "running"
    /\ ws[w].state = "OPEN"
    /\ last' = Event("CREATE_ROOM", w, NoCode, "", "")
    /\ reply' = NoReply
    /\ IF generateRoomCode(rooms) = {}
       THEN /\ status' = "spinning"
            /\ sent' = << >>
            /\ UNCHANGED << rooms, ws >>
       ELSE \E code \in generateRoomCode(rooms) :
            /\ rooms' = (code :> [host |-> w, client |-> NoConn]) @@ rooms
            /\ ws' = [ws EXCEPT ![w].roomCode = code, ![w].isHost = TRUE]
            /\ sent' = << Msg(w, "ROOM_CREATED", code, "", "") >>
            /\ UNCHANGED status
    /\ UNCHANGED << variant, now >>
    /\ stale' = staleNext
    /\ swept' = sweptNext

\* mutant: the error is sent to every open connection, not to the requester only
notFoundSentToAll(w) ==
    LET RECURSIVE all(_)
        all(cs) == IF cs = {} THEN << >>
                   ELSE LET c == CHOOSE d \in cs : \A e \in cs : d <= e
                        IN  << Msg(c, "ERROR", NoCode, "", "Room not found") >> \o all(cs \ {c})
    IN  all({ c \in Conns : IsOpen(c) })

\* if (!room) { ws.send({type: 'ERROR', message: 'Room not found'}); return; }
notFoundSent(w) == << Msg(w, "ERROR", NoCode, "", "Room not found") >>

\* mutant: the occupied client slot is not checked (as in server.js)
roomIsFullNever(room) == FALSE

\* if (room.client)
roomIsFull(room) == room.client # NoConn

\* mutant: the host is not told of the join
joinSentJoinerOnly(w, code) == << Msg(w, "JOINED", code, "", "") >>

\* ws.send({type: 'JOINED', code}); room.host.send({type: 'PLAYER_JOINED'})
joinSent(w, code) ==
    << Msg(w, "JOINED", code, "", ""),
       Msg(rooms[code].host, "PLAYER_JOINED", NoCode, "", "") >>

\* handleJoinRoom(ws, code)
handleJoinRoom(w, code) ==
    /\ variant = "relay"
    /\ status = "running"
    /\ ws[w].state = "OPEN"
    /\ last' = Event("JOIN_ROOM", w, code, "", "")
    /\ reply' = NoReply
    /\ IF code \notin DOMAIN rooms
       THEN /\ sent' = notFoundSent(w)
            /\ UNCHANGED << rooms, ws >>
       ELSE IF roomIsFull(rooms[code])
       THEN /\ sent' = << Msg(w, "ERROR", NoCode, "", "Room is full") >>
            /\ UNCHANGED << rooms, ws >>
       ELSE /\ rooms' = [rooms EXCEPT ![code].client = w]
            /\ ws' = [ws EXCEPT ![w].roomCode = code, ![w].isHost = FALSE]
            /\ sent' = joinSent(w, code)
    /\ UNCHANGED << variant, status, now >>
    /\ stale' = staleNext
    /\ swept' = sweptNext

\* mutant: the two roles are swapped, the payload goes back to the sender's slot
relayTargetSwapped(w, room) == IF ws[w].isHost THEN room.host ELSE room.client

\* handleRelay: const target = ws.isHost ? room.client : room.host
relayTarget(w, room) == IF ws[w].isHost THEN room.client ELSE room.host

\* handleRelay(ws, data)
handleRelay(w, data) ==
    /\ variant = "relay"
    /\ status = "running"
    /\ ws[w].state = "OPEN"
    /\ last' = Event("RELAY", w, NoCode, "", data)
    /\ reply' = NoReply
    /\ sent' = IF /\ ws[w].roomCode \in DOMAIN rooms
                  /\ IsOpen(relayTarget(w, rooms[ws[w].roomCode]))
               THEN << Msg(relayTarget(w, rooms[ws[w].roomCode]), "RELAY", NoCode, data, "") >>
               ELSE << >>
    /\ UNCHANGED << variant, status, rooms, ws, now >>
    /\ stale' = staleNext
    /\ swept' = sweptNext

\* handleLeave(ws): the state it leaves behind and the calls it makes
leaveOther(w, room) == IF ws[w].isHost THEN room.client ELSE room.host

\* wOpen: the leaver's own readyState is OPEN while the handler runs (only so
\* for a LEAVE message)
leaveSent(w, wOpen) ==
    IF ws[w].roomCode = NoCode \/ ws[w].roomCode \notin DOMAIN rooms
    THEN << >>
    ELSE LET other == leaveOther(w, rooms[ws[w].roomCode])
         IN  IF IsOpen(other) /\ (other = w => wOpen)
             THEN << Msg(other, "PLAYER_LEFT", NoCode, "", "") >>
             ELSE << >>

leaveRooms(w) ==
    IF ws[w].roomCode = NoCode \/ ws[w].roomCode \notin DOMAIN rooms
    THEN rooms
    ELSE IF ws[w].isHost
         THEN \* room.client.roomCode = null comes first: rooms.delete(ws.roomCode)
              \* deletes nothing when the leaver is its own room's client
              IF rooms[ws[w].roomCode].client = w
              THEN rooms
              ELSE [c \in DOMAIN rooms \ {ws[w].roomCode} |-> rooms[c]]
         ELSE [rooms EXCEPT ![ws[w].roomCode].client = NoConn]

\* mutant: a leaving host does not unbind its client
leaveCodesKeepClient(w) ==
    IF ws[w].roomCode = NoCode \/ ws[w].roomCode \notin DOMAIN rooms
    THEN [c \in Conns |-> ws[c].roomCode]
    ELSE [c \in Conns |-> IF c = w THEN NoCode ELSE ws[c].roomCode]

\* ws.roomCode = null for the leaver; room.client.roomCode = null when a host leaves
leaveCodes(w) ==
    IF ws[w].roomCode = NoCode \/ ws[w].roomCode \notin DOMAIN rooms
    THEN [c \in Conns |-> ws[c].roomCode]
    ELSE LET room == rooms[ws[w].roomCode]
         IN  [c \in Conns |->
                 IF c = w THEN NoCode
                 ELSE IF ws[w].isHost /\ c = room.client THEN NoCode
                 ELSE ws[c].roomCode]

\* the fields handleLeave(ws) changes; state is the leaver's transport state after it
handleLeave(w, state) ==
    /\ rooms' = leaveRooms(w)
    /\ ws' = [c \in Conns |->
                [ state |-> IF c = w THEN state ELSE ws[c].state,
                  roomCode |-> leaveCodes(w)[c],
                  isHost |-> ws[c].isHost ]]
    /\ sent' = leaveSent(w, state = "OPEN")
    /\ reply' = NoReply
    /\ UNCHANGED << variant, status, now >>

\* case 'LEAVE': handleLeave(ws)
RelayLeave(w) ==
    /\ variant = "relay"
    /\ status = "running"
    /\ ws[w].state = "OPEN"
    /\ last' = Event("LEAVE", w, NoCode, "", "")
    /\ handleLeave(w, "OPEN")
    /\ stale' = staleNext
    /\ swept' = sweptNext

\* ws.on('error'): handleLeave(ws).  ws leaves OPEN and emits 'error' in one
\* turn of the event loop; 'close' follows later
RelayError(w) ==
    /\ variant = "relay"
    /\ status = "running"
    /\ ws[w].state = "OPEN"
    /\ last' = Event("error", w, NoCode, "", "")
    /\ handleLeave(w, "CLOSING")
    /\ stale' = staleNext
    /\ swept' = sweptNext

\* ws.on('close'): handleLeave(ws)
RelayClose(w) ==
    /\ variant = "relay"
    /\ status = "running"
    /\ ws[w].state = "CLOSING"
    /\ last' = Event("close", w, NoCode, "", "")
    /\ handleLeave(w, "CLOSED")
    /\ stale' = staleNext
    /\ swept' = sweptNext

\* mutant: the timer finds no room to delete
relayStaleNever(c) == FALSE

\* the rooms the cleanup timer of part_000 deletes: host missing or not open
relayStale(c) == rooms[c].host = NoConn \/ ~IsOpen(rooms[c].host)

RECURSIVE relayCleanupSent(_)
relayCleanupSent(order) ==
    IF order = << >> THEN << >>
    ELSE LET c == Head(order)
         IN  (IF relayStale(c) /\ IsOpen(rooms[c].client)
              THEN << Msg(rooms[c].client, "PLAYER_LEFT", NoCode, "", "") >>
              ELSE << >>) \o relayCleanupSent(Tail(order))

\* setInterval(() => { for (const [code, room] of rooms) ... }, 5 * 60 * 1000)
RelayCleanup ==
    /\ variant = "relay"
    /\ status = "running"
    /\ last' = Event("cleanup", NoConn, NoCode, "", "")
    /\ rooms' = [c \in { d \in DOMAIN rooms : ~relayStale(d) } |-> rooms[c]]
    /\ sent' = relayCleanupSent(Ascending(DOMAIN rooms))
    /\ reply' = NoReply
    /\ UNCHANGED << variant, status, ws, now >>
    /\ stale' = staleNext
    /\ swept' = sweptNext


----------------------------------------------------------------------------
(* Clock of server.js and part_001 *)

\* the clock advances in steps of the program's own eviction threshold
timeStep == IF variant = "server" THEN RoomMaxAgeMs ELSE IdleMs

\* time passes between two events
Tick ==
    /\ variant \in {"server", "poll"}
    /\ status = "running"
    /\ now < MaxTicks * timeStep
    /\ now' = now + timeStep
    /\ sent' = << >>
    /\ reply' = NoReply
    /\ last' = Event("tick", NoConn, NoCode, "", "")
    /\ UNCHANGED << variant, status, rooms, ws >>
    /\ stale' = staleNext
    /\ swept' = sweptNext

----------------------------------------------------------------------------
(* src/server.js: code generator and HTTP API.  Besides the fields of the   *)
(* program (hostWS, clientWS, created, active) a room carries the history   *)
(* field relayedAt: the time of the last RELAY forwarded in it, or of its   *)
(* creation.                                                                *)

\* do { code = ... } while (rooms.has(code)); return code
serverGenerateRoomCode(rms) == Draws \ DOMAIN rms

HttpReply(st, err, code) ==
    [ status |-> st, error |-> err, code |-> code, msgs |-> << >>, partner |-> FALSE ]

\* GET /create
serverHttpCreate ==
    /\ variant = "server"
    /\ status = "running"
    /\ last' = Event("/create", NoConn, NoCode, "", "")
    /\ sent' = << >>
    /\ IF serverGenerateRoomCode(rooms) = {}
       THEN /\ status' = "spinning"
            /\ reply' = NoReply
            /\ UNCHANGED rooms
       ELSE \E code \in serverGenerateRoomCode(rooms) :
            /\ rooms' = (code :> [hostWS |-> NoConn, clientWS |-> NoConn,
                                  created |-> now, active |-> TRUE,
                                  relayedAt |-> now]) @@ rooms
            /\ reply' = HttpReply(200, "", code)
            /\ UNCHANGED status
    /\ UNCHANGED << variant, ws, now >>
    /\ stale' = staleNext
    /\ swept' = sweptNext

\* GET /close?code=
serverHttpClose(code) ==
    /\ variant = "server"
    /\ status = "running"
    /\ last' = Event("/close", NoConn, code, "", "")
    /\ sent' = << >>
    /\ rooms' = [c \in DOMAIN rooms \ {code} |-> rooms[c]]
    /\ reply' = HttpReply(200, "", NoCode)
    /\ UNCHANGED << variant, status, ws, now >>
    /\ stale' = staleNext
    /\ swept' = sweptNext

(* src/server.js: WebSocket messages *)

\* msg.type === 'CREATE_ROOM'
serverCreateRoom(w) ==
    /\ variant = "server"
    /\ status = "running"
    /\ ws[w].state = "OPEN"
    /\ last' = Event("CREATE_ROOM", w, NoCode, "", "")
    /\ reply' = NoReply
    /\ IF serverGenerateRoomCode(rooms) = {}
       THEN /\ status' = "spinning"
            /\ sent' = << >>
            /\ UNCHANGED << rooms, ws >>
       ELSE \E code \in serverGenerateRoomCode(rooms) :
            /\ rooms' = (code :> [hostWS |-> w, clientWS |-> NoConn,
                                  created |-> now, active |-> TRUE,
                                  relayedAt |-> now]) @@ rooms
            /\ ws' = [ws EXCEPT ![w].roomCode = code, ![w].isHost = TRUE]
            /\ sent' = << Msg(w, "ROOM_CREATED", code, "", "") >>
            /\ UNCHANGED status
    /\ UNCHANGED << variant, now >>
    /\ stale' = staleNext
    /\ swept' = sweptNext

\* msg.type === 'JOIN_ROOM': if (room && room.active)
serverJoinAccepts(code) == code \in DOMAIN rooms /\ rooms[code].active

\* msg.type === 'JOIN_ROOM'
serverJoinRoom(w, code) ==
    /\ variant = "server"
    /\ status = "running"
    /\ ws[w].state = "OPEN"
    /\ last' = Event("JOIN_ROOM", w, code, "", "")
    /\ reply' = NoReply
    /\ IF serverJoinAccepts(code)
       THEN /\ ws' = [ws EXCEPT ![w].roomCode = code, ![w].isHost = FALSE]
            /\ rooms' = [rooms EXCEPT ![code].clientWS = w]
            /\ sent' = << Msg(w, "JOINED", NoCode, "", "") >> \o
                       (IF rooms[code].hostWS # NoConn
                        THEN << Msg(rooms[code].hostWS, "PLAYER_JOINED", NoCode, "", "") >>
                        ELSE << >>)
       ELSE /\ sent' = << Msg(w, "ERROR", NoCode, "", "Room not found") >>
            /\ UNCHANGED << rooms, ws >>
    /\ UNCHANGED << variant, status, now >>
    /\ stale' = staleNext
    /\ swept' = sweptNext

\* const target = ws.isHost ? room.clientWS : room.hostWS
serverRelayTarget(w, room) == IF ws[w].isHost THEN room.clientWS ELSE room.hostWS

\* the RELAY branch forwards the payload: the sender is bound to a room of the
\* Map and the target slot holds an open connection
serverRelays(w) ==
    /\ ws[w].roomCode # NoCode
    /\ ws[w].roomCode \in DOMAIN rooms
    /\ IsOpen(serverRelayTarget(w, rooms[ws[w].roomCode]))

\* msg.type === 'RELAY' && ws.roomCode
serverRelay(w, data) ==
    /\ variant = "server"
    /\ status = "running"
    /\ ws[w].state = "OPEN"
    /\ last' = Event("RELAY", w, NoCode, "", data)
    /\ reply' = NoReply
    /\ sent' = IF serverRelays(w)
               THEN << Msg(serverRelayTarget(w, rooms[ws[w].roomCode]), "RELAY", NoCode, data, "") >>
               ELSE << >>
    /\ rooms' = IF serverRelays(w)
                THEN [rooms EXCEPT ![ws[w].roomCode].relayedAt = now]
                ELSE rooms
    /\ UNCHANGED << variant, status, ws, now >>
    /\ stale' = staleNext
    /\ swept' = sweptNext

\* a message of any other type, {"type": "LEAVE"} of the README among them:
\* no branch of the handler matches it
serverLeave(w) ==
    /\ variant = "server"
    /\ status = "running"
    /\ ws[w].state = "OPEN"
    /\ last' = Event("LEAVE", w, NoCode, "", "")
    /\ reply' = NoReply
    /\ sent' = << >>
    /\ UNCHANGED << variant, status, rooms, ws, now >>
    /\ stale' = staleNext
    /\ swept' = sweptNext

\* ws.on('close'): the calls it makes
serverCloseSent(w) ==
    IF ws[w].roomCode = NoCode \/ ws[w].roomCode \notin DOMAIN rooms
    THEN << >>
    ELSE LET room == rooms[ws[w].roomCode]
         IN  IF ws[w].isHost
             THEN IF room.clientWS # NoConn
                  THEN << Msg(room.clientWS, "HOST_LEFT", NoCode, "", "") >>
                  ELSE << >>
             ELSE IF room.hostWS # NoConn
                  THEN << Msg(room.hostWS, "PLAYER_LEFT", NoCode, "", "") >>
                  ELSE << >>

\* ws.on('close'): the rooms Map it leaves
serverCloseRooms(w) ==
    IF ws[w].roomCode = NoCode \/ ws[w].roomCode \notin DOMAIN rooms
    THEN rooms
    ELSE IF ws[w].isHost
         THEN [c \in DOMAIN rooms \ {ws[w].roomCode} |-> rooms[c]]
         ELSE [rooms EXCEPT ![ws[w].roomCode].clientWS = NoConn]

\* ws.on('close')
serverClose(w) ==
    /\ variant = "server"
    /\ status = "running"
    /\ ws[w].state = "CLOSING"
    /\ last' = Event("close", w, NoCode, "", "")
    /\ reply' = NoReply
    /\ sent' = serverCloseSent(w)
    /\ rooms' = serverCloseRooms(w)
    /\ ws' = [ws EXCEPT ![w].state = "CLOSED"]
    /\ UNCHANGED << variant, status, now >>
    /\ stale' = staleNext
    /\ swept' = sweptNext

\* server.js registers no 'error' listener on ws: an 'error' event of a socket
\* is an unhandled 'error' of an EventEmitter, and the process exits
serverError(w) ==
    /\ variant = "server"
    /\ status = "running"
    /\ ws[w].state = "OPEN"
    /\ last' = Event("error", w, NoCode, "", "")
    /\ reply' = NoReply
    /\ sent' = << >>
    /\ status' = "crashed"
    /\ ws' = [ws EXCEPT ![w].state = "CLOSING"]
    /\ UNCHANGED << variant, rooms, now >>
    /\ stale' = staleNext
    /\ swept' = sweptNext

\* if (now - room.created > 60 * 60 * 1000)
serverExpired(room) == now - room.created > RoomMaxAgeMs

\* setInterval(() => { ... }, 10 * 60 * 1000)
serverCleanup ==
    /\ variant = "server"
    /\ status = "running"
    /\ last' = Event("cleanup", NoConn, NoCode, "", "")
    /\ reply' = NoReply
    /\ sent' = << >>
    /\ rooms' = [c \in { d \in DOMAIN rooms : ~serverExpired(rooms[d]) } |-> rooms[c]]
    /\ UNCHANGED << variant, status, ws, now >>
    /\ stale' = staleNext
    /\ swept' = sweptNext

----------------------------------------------------------------------------
(* src/unnamed/part_001: the HTTP polling relay.  Besides the fields of the  *)
(* program (messages, hasClient, lastPing) a room carries two history fields: *)
(* accepted[r], the payloads /send accepted for role r, in order, and         *)
(* polled[r], the msgs arrays /poll returned to role r, concatenated; and     *)
(* touched, the time of the room's last /send or /poll, or of its creation.   *)

\* do { code = String(...) } while (rooms.has(code)); return code
generateCode(rms) == Draws \ DOMAIN rms

PollReply(st, err, code, msgs, partner) ==
    [ status |-> st, error |-> err, code |-> code, msgs |-> msgs, partner |-> partner ]

\* const target = q('role') === 'host' ? 'client' : 'host'
sendTarget(role) == IF role = "host" THEN "client" ELSE "host"

\* GET /host
pollHost ==
    /\ variant = "poll"
    /\ status = "running"
    /\ last' = Event("/host", NoConn, NoCode, "", "")
    /\ IF generateCode(rooms) = {}
       THEN /\ status' = "spinning"
            /\ reply' = NoReply
            /\ UNCHANGED rooms
       ELSE \E code \in generateCode(rooms) :
            /\ rooms' = (code :> [ messages |-> [host |-> << >>, client |-> << >>],
                                   hasClient |-> FALSE,
                                   lastPing |-> now,
                                   touched |-> now,
                                   accepted |-> [host |-> << >>, client |-> << >>],
                                   polled |-> [host |-> << >>, client |-> << >>] ]) @@ rooms
            /\ reply' = PollReply(200, "", code, << >>, FALSE)
            /\ UNCHANGED status
    /\ UNCHANGED << variant, ws, now, sent >>
    /\ stale' = staleNext
    /\ swept' = sweptNext

\* GET /join?code=
pollJoin(code) ==
    /\ variant = "poll"
    /\ status = "running"
    /\ last' = Event("/join", NoConn, code, "", "")
    /\ IF code \notin DOMAIN rooms
       THEN /\ reply' = PollReply(404, "not_found", NoCode, << >>, FALSE)
            /\ UNCHANGED rooms
       ELSE IF rooms[code].hasClient
       THEN /\ reply' = PollReply(400, "full", NoCode, << >>, FALSE)
            /\ UNCHANGED rooms
       ELSE /\ rooms' = [rooms EXCEPT ![code].hasClient = TRUE,
                                      ![code].messages.host = Append(@, "JOINED")]
            /\ reply' = PollReply(200, "", NoCode, << >>, FALSE)
    /\ UNCHANGED << variant, status, ws, now, sent >>
    /\ stale' = staleNext
    /\ swept' = sweptNext

\* mutant: unshift instead of push
pollPushFront(queue, msg) == << msg >> \o queue

\* room.messages[target].push(q('msg'))
pollPush(queue, msg) == Append(queue, msg)

\* history: the payloads /send accepted in the rooms of a set of codes
RECURSIVE acceptedCount(_)
acceptedCount(codes) ==
    IF codes = {} THEN 0
    ELSE LET c == CHOOSE d \in codes : TRUE
         IN  Len(rooms[c].accepted.host) + Len(rooms[c].accepted.client)
             + acceptedCount(codes \ {c})

\* GET /send?code=&role=&msg=
pollSend(code, role, msg) ==
    /\ variant = "poll"
    /\ status = "running"
    /\ code \in DOMAIN rooms => acceptedCount(DOMAIN rooms) < MaxSends
    /\ last' = Event("/send", NoConn, code, role, msg)
    /\ IF code \notin DOMAIN rooms
       THEN /\ reply' = PollReply(404, "not_found", NoCode, << >>, FALSE)
            /\ UNCHANGED rooms
       ELSE /\ rooms' = [rooms EXCEPT
                  ![code].messages[sendTarget(role)] = pollPush(@, msg),
                  ![code].lastPing = now,
                  ![code].touched = now,
                  ![code].accepted[sendTarget(role)] = Append(@, msg)]
            /\ reply' = PollReply(200, "", NoCode, << >>, FALSE)
    /\ UNCHANGED << variant, status, ws, now, sent >>
    /\ stale' = staleNext
    /\ swept' = sweptNext

\* const msgs = room.messages[role].splice(0): the elements removed and returned
pollSplice(queue) == queue

\* what room.messages[role].splice(0) leaves in the queue
pollRemaining(queue) == << >>

\* GET /poll?code=&role=
pollPoll(code, role) ==
    /\ variant = "poll"
    /\ status = "running"
    /\ last' = Event("/poll", NoConn, code, role, "")
    /\ IF code \notin DOMAIN rooms
       THEN /\ reply' = PollReply(404, "not_found", NoCode, << >>, FALSE)
            /\ UNCHANGED rooms
       ELSE /\ rooms' = [rooms EXCEPT
                  ![code].messages[role] = pollRemaining(@),
                  ![code].lastPing = now,
                  ![code].touched = now,
                  ![code].polled[role] = @ \o pollSplice(rooms[code].messages[role])]
            /\ reply' = PollReply(200, "", NoCode, pollSplice(rooms[code].messages[role]),
                                  IF role = "host" THEN rooms[code].hasClient ELSE TRUE)
    /\ UNCHANGED << variant, status, ws, now, sent >>
    /\ stale' = staleNext
    /\ swept' = sweptNext

\* mutant: the threshold itself counts as idle
pollIdleInclusive(room) == now - room.lastPing >= IdleMs

\* if (now - room.lastPing > 600000)
pollIdle(room) == now - room.lastPing > IdleMs

\* setInterval(() => { ... }, 300000)
pollCleanup ==
    /\ variant = "poll"
    /\ status = "running"
    /\ last' = Event("cleanup", NoConn, NoCode, "", "")
    /\ reply' = NoReply
    /\ rooms' = [c \in { d \in DOMAIN rooms : ~pollIdle(rooms[d]) } |-> rooms[c]]
    /\ UNCHANGED << variant, status, ws, now, sent >>
    /\ stale' = staleNext
    /\ swept' = sweptNext

----------------------------------------------------------------------------

InitAny ==
    /\ status = "running"
    /\ rooms = << >>
    /\ ws = [c \in Conns |-> [state |-> "NEW", roomCode |-> NoCode, isHost |-> FALSE]]
    /\ now = 0
    /\ sent = << >>
    /\ reply = NoReply
    /\ stale = [c \in Conns |-> FALSE]
    /\ swept = {}
    /\ last = Event("init", NoConn, NoCode, "", "")

Init == variant \in Variants /\ InitAny
InitRelay == variant = "relay" /\ InitAny
InitServer == variant = "server" /\ InitAny
InitPoll == variant = "poll" /\ InitAny

NextRelay ==
    \/ \E w \in Conns : Connection(w)
    \/ \E w \in Conns : SocketDown(w)
    \/ \E w \in Conns : handleCreateRoom(w)
    \/ \E w \in Conns, code \in JoinCodes : handleJoinRoom(w, code)
    \/ \E w \in Conns, data \in Payloads : handleRelay(w, data)
    \/ \E w \in Conns : RelayLeave(w)
    \/ \E w \in Conns : RelayError(w)
    \/ \E w \in Conns : RelayClose(w)
    \/ RelayCleanup

NextServer ==
    \/ \E w \in Conns : Connection(w)
    \/ \E w \in Conns : SocketDown(w)
    \/ Tick
    \/ serverHttpCreate
    \/ \E code \in JoinCodes : serverHttpClose(code)
    \/ \E w \in Conns : serverCreateRoom(w)
    \/ \E w \in Conns, code \in JoinCodes : serverJoinRoom(w, code)
    \/ \E w \in Conns, data \in Payloads : serverRelay(w, data)
    \/ \E w \in Conns : serverLeave(w)
    \/ \E w \in Conns : serverClose(w)
    \/ \E w \in Conns : serverError(w)
    \/ serverCleanup

NextPoll ==
    \/ Tick
    \/ pollHost
    \/ \E code \in JoinCodes : pollJoin(code)
    \/ \E code \in JoinCodes, role \in Roles, msg \in PollMsgs : pollSend(code, role, msg)
    \/ \E code \in JoinCodes, role \in Roles : pollPoll(code, role)
    \/ pollCleanup

Next == NextRelay \/ NextServer \/ NextPoll

Spec == Init /\ [][Next]_vars
SpecRelay == InitRelay /\ [][NextRelay]_vars
SpecServer == InitServer /\ [][NextServer]_vars
SpecPoll == InitPoll /\ [][NextPoll]_vars

\* part_000 with its timer and its sockets kept going: setInterval fires the
\* cleanup again and again, and ws emits 'close' for every socket that has
\* stopped being open
SpecRelayFair ==
    /\ InitRelay
    /\ [][NextRelay]_vars
    /\ WF_vars(RelayCleanup)
    /\ \A w \in Conns : WF_vars(RelayClose(w))

----------------------------------------------------------------------------
(* Vocabulary of the properties *)

\* the creates of the three programs
CreateOps == {"CREATE_ROOM", "/create", "/host"}
\* the ways a connection departs: LEAVE message, 'error' event, 'close' event
DepartOps == {"LEAVE", "error", "close"}

\* the host and client slot of a room of either WebSocket server
HostOf(room) == IF variant = "relay" THEN room.host ELSE room.hostWS
ClientOf(room) == IF variant = "relay" THEN room.client ELSE room.clientWS

\* the decimal strings of the numbers 1000..9999
IsFourDigitCode(code) ==
    /\ Len(code) = 4
    /\ toNumber(code) \in CodeBase .. (CodeBase + CodeSpan - 1)
    /\ toString(toNumber(code)) = code

\* the positions of sent' that hold a message of type t for connection c
SentNext(c, t) == { i \in 1 .. Len(sent') : sent'[i].to = c /\ sent'[i].type = t }

\* the *_LEFT notices of sent' for connection c
LeftNext(c) == SentNext(c, "PLAYER_LEFT") \cup SentNext(c, "HOST_LEFT")

----------------------------------------------------------------------------
(* C1 *)

\* C1: a create of any of the three programs that returns inserts exactly one
\* room, under a 4-digit code 1000..9999 that was no key of rooms when the
\* handler was called, hands that code to the requester, and leaves every
\* room that existed as it was (no overwrite).
C1_CodeUniqueness ==
    [][ (last'.op \in CreateOps /\ status' = "running") =>
          \E code \in DOMAIN rooms' :
             /\ IsFourDigitCode(code)
             /\ code \notin DOMAIN rooms
             /\ DOMAIN rooms' = DOMAIN rooms \cup {code}
             /\ \A c \in DOMAIN rooms : rooms'[c] = rooms[c]
             /\ IF last'.op = "CREATE_ROOM"
                THEN sent' = << [ to |-> last'.conn, type |-> "ROOM_CREATED", code |-> code,
                                  data |-> "", message |-> "", open |-> TRUE ] >>
                ELSE reply'.status = 200 /\ reply'.code = code
      ]_vars

\* a create has just run while another room was active
C1_Witness ==
    /\ last.op \in CreateOps
    /\ status = "running"
    /\ Cardinality(DOMAIN rooms) = 2

----------------------------------------------------------------------------
(* C2 *)

\* C2: in part_000, JOIN_ROOM from an unbound connection for an existing room
\* with an empty client slot makes the joiner that room's client, binds it to
\* the code as non-host, calls send once on the joiner with JOINED{code} and
\* once on the room's host with PLAYER_JOINED, and changes nothing else.
C2_JoinSuccess ==
    [][ \A w \in Conns, code \in JoinCodes :
          ( /\ variant = "relay"
            /\ last' = Event("JOIN_ROOM", w, code, "", "")
            /\ ws[w].roomCode = NoCode
            /\ code \in DOMAIN rooms
            /\ rooms[code].client = NoConn )
          => /\ rooms' = [rooms EXCEPT ![code].client = w]
             /\ ws' = [ws EXCEPT ![w].roomCode = code, ![w].isHost = FALSE]
             /\ Len(sent') = 2
             /\ Cardinality(SentNext(w, "JOINED")) = 1
             /\ \A i \in SentNext(w, "JOINED") : sent'[i].code = code
             /\ Cardinality(SentNext(rooms[code].host, "PLAYER_JOINED")) = 1
             /\ << variant', status', now' >> = << variant, status, now >>
      ]_vars

\* a connection other than the host has just joined a room
C2_Witness ==
    /\ variant = "relay"
    /\ last.op = "JOIN_ROOM"
    /\ last.code \in DOMAIN rooms
    /\ rooms[last.code].client = last.conn
    /\ rooms[last.code].host # last.conn
    /\ Len(sent) = 2 /\ sent[1].type = "JOINED" /\ sent[2].type = "PLAYER_JOINED"

----------------------------------------------------------------------------
(* C3 *)

\* C3: a join (JOIN_ROOM of either WebSocket server, /join of part_001) that
\* names a code which is no key of rooms answers the requester alone with the
\* not-found error and changes neither the rooms Map nor any connection.
C3_JoinNotFound ==
    [][ ( /\ last'.op \in {"JOIN_ROOM", "/join"}
          /\ last'.code \notin DOMAIN rooms )
        => /\ rooms' = rooms
           /\ ws' = ws
           /\ IF last'.op = "JOIN_ROOM"
              THEN /\ sent' = << [ to |-> last'.conn, type |-> "ERROR", code |-> NoCode,
                                   data |-> "", message |-> "Room not found",
                                   open |-> TRUE ] >>
                   /\ reply' = NoReply
              ELSE /\ sent' = << >>
                   /\ reply'.status = 404
                   /\ reply'.error = "not_found"
      ]_vars

\* a join for a missing code has just been refused while another room exists
C3_Witness ==
    /\ last.op \in {"JOIN_ROOM", "/join"}
    /\ last.code \notin DOMAIN rooms
    /\ rooms # << >>
    /\ \/ sent # << >> /\ sent[1].type = "ERROR"
       \/ reply.status = 404

----------------------------------------------------------------------------
(* C4 *)

\* C4: in part_000 and part_001 a join for a room whose client slot is
\* occupied is refused with 'Room is full' / 'full'; the rooms Map (slot and
\* host queue included) and every connection stay as they were, and nothing is
\* sent to anybody but the joiner.
C4_JoinFull ==
    [][ /\ ( /\ variant = "relay"
             /\ last'.op = "JOIN_ROOM"
             /\ last'.code \in DOMAIN rooms
             /\ rooms[last'.code].client # NoConn )
           => /\ sent' = << [ to |-> last'.conn, type |-> "ERROR", code |-> NoCode,
                              data |-> "", message |-> "Room is full", open |-> TRUE ] >>
              /\ rooms' = rooms
              /\ ws' = ws
        /\ ( /\ variant = "poll"
             /\ last'.op = "/join"
             /\ last'.code \in DOMAIN rooms
             /\ rooms[last'.code].hasClient )
           => /\ reply'.status = 400
              /\ reply'.error = "full"
              /\ rooms' = rooms
              /\ sent' = << >>
      ]_vars

\* a second join has just been refused: in part_000 the joiner is unbound and
\* is not the room's client
C4_Witness ==
    /\ last.code \in DOMAIN rooms
    /\ \/ /\ variant = "relay"
          /\ last.op = "JOIN_ROOM"
          /\ sent # << >> /\ sent[1].message = "Room is full"
          /\ ws[last.conn].roomCode = NoCode
          /\ rooms[last.code].client \notin {NoConn, last.conn}
       \/ /\ variant = "poll"
          /\ last.op = "/join"
          /\ reply.error = "full"

----------------------------------------------------------------------------
(* C5 *)

\* C5: in server.js a JOIN_ROOM for a room whose clientWS slot holds another,
\* open connection is answered with an ERROR; clientWS keeps the first client
\* and the host gets no second PLAYER_JOINED.
C5_ServerJoinFull ==
    [][ \A w \in Conns, code \in JoinCodes :
          ( /\ variant = "server"
            /\ last' = Event("JOIN_ROOM", w, code, "", "")
            /\ code \in DOMAIN rooms
            /\ rooms[code].clientWS \notin {NoConn, w}
            /\ IsOpen(rooms[code].clientWS) )
          => /\ SentNext(w, "ERROR") # {}
             /\ SentNext(w, "JOINED") = {}
             /\ rooms'[code].clientWS = rooms[code].clientWS
             /\ \A c \in Conns : SentNext(c, "PLAYER_JOINED") = {}
      ]_vars

----------------------------------------------------------------------------
(* C6 *)

\* C6: in both WebSocket servers a RELAY of connection A reaches only the
\* connection in the opposite slot of the session A itself created or joined:
\* never A, and never a peer of a room that was created under A's code after
\* A's own session was deleted.
C6_RelayIsolation ==
    [][ (variant \in WsVariants /\ last'.op = "RELAY") =>
          \A i \in 1 .. Len(sent') :
             sent'[i].type = "RELAY" =>
                /\ sent'[i].to # last'.conn
                /\ ~stale[last'.conn]
                /\ ws[last'.conn].roomCode \in DOMAIN rooms
                /\ sent'[i].to =
                     IF ws[last'.conn].isHost
                     THEN ClientOf(rooms[ws[last'.conn].roomCode])
                     ELSE HostOf(rooms[ws[last'.conn].roomCode])
      ]_vars

----------------------------------------------------------------------------
(* C7 *)

\* the elements of a queue that /send put there
Payload(m) == m # "JOINED"

\* C7 as claimed: per room and direction, what the polls of a role returned
\* followed by what is still queued for it is the sequence of the /send
\* payloads addressed to it.
C7_PollFifoAsClaimed ==
    variant = "poll" =>
      \A code \in DOMAIN rooms : \A r \in Roles :
         rooms[code].polled[r] \o rooms[code].messages[r] = rooms[code].accepted[r]

\* C7 amended: that holds for the client; the host is returned the client's
\* payloads in send order together with the one 'JOINED' string that a
\* successful /join pushes onto the host queue.
C7_PollFifo ==
    variant = "poll" =>
      \A code \in DOMAIN rooms :
         LET room == rooms[code]
             toHost == room.polled.host \o room.messages.host
         IN  /\ room.polled.client \o room.messages.client = room.accepted.client
             /\ SelectSeq(toHost, Payload) = room.accepted.host
             /\ Len(toHost) = Len(room.accepted.host) + (IF room.hasClient THEN 1 ELSE 0)

\* the host sent two different payloads, the client has polled both in order,
\* and the host queue holds the JOINED of the client's join
C7_Witness ==
    /\ variant = "poll"
    /\ \E code \in DOMAIN rooms :
          /\ Len(rooms[code].polled.client) = 2
          /\ rooms[code].polled.client[1] # rooms[code].polled.client[2]
          /\ rooms[code].hasClient
          /\ rooms[code].messages.host = << "JOINED" >>

----------------------------------------------------------------------------
(* C8 *)

\* C8: in both WebSocket servers a RELAY from a bound host whose room has an
\* empty client slot makes no send() call at all and changes neither the room
\* nor any connection; and no handler other than RELAY ever sends a RELAY
\* message, so the payload is not delivered to a client that joins later.
C8_NoBuffering ==
    [][ (variant \in WsVariants) =>
          /\ \A w \in Conns :
               ( /\ last'.op = "RELAY"
                 /\ last'.conn = w
                 /\ ws[w].isHost
                 /\ ws[w].roomCode \in DOMAIN rooms
                 /\ ClientOf(rooms[ws[w].roomCode]) = NoConn )
               => /\ sent' = << >>
                  /\ rooms' = rooms
                  /\ ws' = ws
          /\ last'.op # "RELAY" =>
               \A i \in 1 .. Len(sent') : sent'[i].type # "RELAY"
      ]_vars

\* a host has just relayed into a room that once had a client and has none now
C8_Witness ==
    /\ variant \in WsVariants
    /\ last.op = "RELAY"
    /\ sent = << >>
    /\ ws[last.conn].isHost
    /\ ws[last.conn].roomCode \in DOMAIN rooms
    /\ HostOf(rooms[ws[last.conn].roomCode]) = last.conn
    /\ ClientOf(rooms[ws[last.conn].roomCode]) = NoConn
    /\ \E c \in Conns : c # last.conn /\ ws[c].state = "OPEN"

----------------------------------------------------------------------------
(* C9 *)

\* C9: in both WebSocket servers, when the connection in the host slot of a
\* room departs (LEAVE, 'error', 'close'), that room is removed from the Map
\* and an open client in its client slot gets exactly one *_LEFT notice.
C9_HostDepartureEndsSession ==
    [][ \A w \in Conns :
          ( /\ variant \in WsVariants
            /\ last'.op \in DepartOps
            /\ last'.conn = w )
          => \A c \in DOMAIN rooms :
                HostOf(rooms[c]) = w =>
                   /\ c \notin DOMAIN rooms'
                   /\ ( IsOpen(ClientOf(rooms[c])) /\ ClientOf(rooms[c]) # w )
                      => Cardinality(LeftNext(ClientOf(rooms[c]))) = 1
      ]_vars

----------------------------------------------------------------------------
(* C10 *)

\* C10: when the connection in the client slot of a room departs (LEAVE,
\* 'error' or 'close' in part_000, 'close' in server.js), the room stays in the
\* Map with the same host and an empty client slot, so that the next JOIN_ROOM
\* for the code is accepted, and an open host gets exactly one PLAYER_LEFT.
C10_ClientDeparturePreservesSession ==
    [][ \A w \in Conns :
          ( /\ variant \in WsVariants
            /\ last'.op \in (IF variant = "relay" THEN DepartOps ELSE {"close"})
            /\ last'.conn = w )
          => \A c \in DOMAIN rooms :
                ( ClientOf(rooms[c]) = w /\ HostOf(rooms[c]) # w ) =>
                   /\ c \in DOMAIN rooms'
                   /\ HostOf(rooms'[c]) = HostOf(rooms[c])
                   /\ ClientOf(rooms'[c]) = NoConn
                   /\ IsOpen(HostOf(rooms[c]))
                      => Cardinality(SentNext(HostOf(rooms[c]), "PLAYER_LEFT")) = 1
      ]_vars

----------------------------------------------------------------------------
(* C11 *)

\* what a transport close of connection w would do in the current state: the
\* rooms Map it leaves and the calls it makes
closeRoomsOf(w) == IF variant = "relay" THEN leaveRooms(w) ELSE serverCloseRooms(w)
closeSentOf(w) == IF variant = "relay" THEN leaveSent(w, FALSE) ELSE serverCloseSent(w)

\* the calls of a sequence of send() calls that go to a connection other than w
ToPeers(msgs, w) == SelectSeq(msgs, LAMBDA m : m.to # w)

\* C11: in each WebSocket server a LEAVE message of a bound connection leaves
\* the rooms Map (slots included) that a transport close of the connection
\* would leave, makes the calls to the remaining peer that the close would
\* make, and unbinds the connection.
C11_LeaveEqualsClose ==
    [][ \A w \in Conns :
          ( /\ variant \in WsVariants
            /\ last'.op = "LEAVE"
            /\ last'.conn = w
            /\ ws[w].roomCode # NoCode )
          => /\ rooms' = closeRoomsOf(w)
             /\ ToPeers(sent', w) = ToPeers(closeSentOf(w), w)
             /\ ws'[w].roomCode = NoCode
      ]_vars

----------------------------------------------------------------------------
(* C12 *)

\* C12: when the cleanup timer of either WebSocket server removes a room, every
\* open connection in its host or client slot is sent a *_LEFT notice by that
\* run of the timer.
C12_SweepNotifies ==
    [][ (variant \in WsVariants /\ last'.op = "cleanup") =>
          \A c \in DOMAIN rooms \ DOMAIN rooms' :
             \A p \in {HostOf(rooms[c]), ClientOf(rooms[c])} :
                IsOpen(p) => LeftNext(p) # {}
      ]_vars

----------------------------------------------------------------------------
(* C13 *)

\* the requests of part_001 that name a room
PollRequests == {"/join", "/send", "/poll"}

\* a run of the cleanup timer of part_001 removes exactly the rooms whose last
\* /send or /poll (creation, if there was none) is more than 600000 ms old,
\* and leaves the others as they are
PollSweepExact ==
    last'.op = "cleanup" =>
       /\ DOMAIN rooms' = { c \in DOMAIN rooms : ~(now - rooms[c].touched > IdleMs) }
       /\ \A c \in DOMAIN rooms' : rooms'[c] = rooms[c]

\* C13 as claimed: the sweep is exact, and every /join, /send and /poll for a
\* code whose room the sweep removed returns not_found.
C13_IdleSweepAsClaimed ==
    [][ variant = "poll" =>
          /\ PollSweepExact
          /\ (last'.op \in PollRequests /\ last'.code \in swept)
             => reply'.status = 404 /\ reply'.error = "not_found"
      ]_vars

\* C13 amended: the sweep is exact, and a /join, /send or /poll for a code
\* whose room the sweep removed returns not_found and changes nothing as long
\* as no later /host has drawn that code again.
C13_IdleSweep ==
    [][ variant = "poll" =>
          /\ PollSweepExact
          /\ ( /\ last'.op \in PollRequests
               /\ last'.code \in swept
               /\ last'.code \notin DOMAIN rooms )
             => /\ reply'.status = 404
                /\ reply'.error = "not_found"
                /\ rooms' = rooms
      ]_vars

\* the sweep has just run at the moment where one room is exactly 600000 ms
\* past its last /send and is kept, after another room was removed
C13_Witness ==
    /\ variant = "poll"
    /\ last.op = "cleanup"
    /\ swept # {}
    /\ \E c \in DOMAIN rooms :
          /\ now - rooms[c].touched = IdleMs
          /\ rooms[c].accepted.host # << >>

----------------------------------------------------------------------------
(* C14 *)

\* C14: the cleanup timer of server.js removes a room only when no message
\* has been relayed in it (and, if none ever was, it has not been created) for
\* more than the threshold of one hour.
C14_EvictionByIdleness ==
    [][ (variant = "server" /\ last'.op = "cleanup") =>
          \A c \in DOMAIN rooms \ DOMAIN rooms' :
             now - rooms[c].relayedAt > RoomMaxAgeMs
      ]_vars

----------------------------------------------------------------------------
(* C15 *)

\* C15: in both WebSocket servers a LEAVE, 'error' or 'close' of connection X
\* deletes only a room whose host slot holds X and clears only a client slot
\* that holds X; and when the room X last created or joined has been deleted,
\* X's departure changes no room and sends no *_LEFT notice, whatever room has
\* been created under X's code since.
C15_DetachIsolation ==
    [][ \A w \in Conns :
          ( /\ variant \in WsVariants
            /\ last'.op \in DepartOps
            /\ last'.conn = w )
          => /\ \A c \in DOMAIN rooms :
                  /\ c \notin DOMAIN rooms' => HostOf(rooms[c]) = w
                  /\ (c \in DOMAIN rooms' /\ ClientOf(rooms'[c]) # ClientOf(rooms[c]))
                     => ClientOf(rooms[c]) = w
             /\ stale[w] =>
                  /\ rooms' = rooms
                  /\ \A p \in Conns : LeftNext(p) = {}
      ]_vars

----------------------------------------------------------------------------
(* C17 *)

\* C17: every send() call of either WebSocket server is made on a connection
\* whose readyState is OPEN at the call.
C17_SendOnlyToOpen ==
    [][ (variant \in WsVariants) =>
          \A i \in 1 .. Len(sent') : sent'[i].open
      ]_vars

----------------------------------------------------------------------------
(* C18 *)

\* C18: in part_000 the host of every room is bound to the room's code as host,
\* the client of every room is bound to it as non-host, and every bound
\* connection occupies the slot of its role in the room of its code.
C18_SlotBinding ==
    variant = "relay" =>
      /\ \A c \in DOMAIN rooms :
            /\ rooms[c].host \in Conns
            /\ ws[rooms[c].host].roomCode = c
            /\ ws[rooms[c].host].isHost
            /\ rooms[c].client # NoConn =>
                  /\ ws[rooms[c].client].roomCode = c
                  /\ ~ws[rooms[c].client].isHost
      /\ \A w \in Conns :
            ws[w].roomCode # NoCode =>
               /\ ws[w].roomCode \in DOMAIN rooms
               /\ IF ws[w].isHost
                  THEN rooms[ws[w].roomCode].host = w
                  ELSE rooms[ws[w].roomCode].client = w

----------------------------------------------------------------------------
(* C19 *)

\* C19: every create (CREATE_ROOM, /create, /host) returns with its reply, also
\* when every code the generator can draw is the key of a room, and the server
\* goes on handling events.
C19_CreateTerminates ==
    [][ (last'.op \in CreateOps) =>
          /\ status' = "running"
          /\ \/ \E i \in 1 .. Len(sent') : sent'[i].to = last'.conn
             \/ reply'.status # 0
      ]_vars

----------------------------------------------------------------------------
(* C16 *)

\* room c of part_000 is a session as CREATE_ROOM and JOIN_ROOM of unbound
\* connections build it: its host is bound to c as host, and its client slot
\* is empty or holds another connection that is bound to c as client
RegularSession(c) ==
    /\ c \in DOMAIN rooms
    /\ ws[rooms[c].host].roomCode = c
    /\ ws[rooms[c].host].isHost
    /\ rooms[c].client # NoConn =>
          /\ rooms[c].client # rooms[c].host
          /\ ws[rooms[c].client].roomCode = c
          /\ ~ws[rooms[c].client].isHost

----------------------------------------------------------------------------
(* C20 *)

\* C20: in part_000, as long as the cleanup timer keeps firing (the server is
\* not caught in the code generator's loop) and 'close' events are processed,
\* every room whose host connection is not open is eventually removed from
\* the Map, whether or not its host is still bound to it.
C20_EventualCleanup ==
    \A c \in Draws :
       (variant = "relay" /\ c \in DOMAIN rooms /\ ~IsOpen(rooms[c].host))
          ~> (c \notin DOMAIN rooms \/ status = "spinning")

\* the timer has just emptied the Map after the only connection ever accepted
\* created two rooms (the first one orphaned by the second CREATE_ROOM) and its
\* socket stopped being open
C20_Witness ==
    /\ variant = "relay"
    /\ last.op = "cleanup"
    /\ rooms = << >>
    /\ Cardinality(swept) = 2
    /\ \E h \in Conns :
          /\ ws[h].state \in {"CLOSING", "CLOSED"}
          /\ \A w \in Conns \ {h} : ws[w].state = "NEW"

=============================================================================
